---- MODULE Spec2Model ----
(***************************************************************************)
(* A model of discord.ext.paginator.Paginator (paginator.py): the          *)
(* pagination state, the button registry and the render pass.  The         *)
(* paginator object is a record `s`; every method is an operator from the  *)
(* object (and its arguments) to the object after the call.  A raised      *)
(* exception is the field exc: once it is set the remaining statements of  *)
(* the method are skipped, and what was assigned before it stays assigned. *)
(***************************************************************************)
EXTENDS Integers, Sequences, FiniteSets, TLC

\* ------------------------------------------------------------------ bounds
\* The longest page list a caller passes, in the navigation specification
\* and in the render specification.
MaxPages == 4
MaxRenderPages == 3

\* ------------------------------------------------------- Python's values
\* Optional[T]: None is the empty tuple, a value x is <<x>>.
None == <<>>
Some(x) == <<x>>
\* discord.MISSING, the "argument not supplied" sentinel: it is not None and
\* it is falsy.
MISSING == <<"discord", "MISSING">>
NoExc == "none"

Max(a, b) == IF a >= b THEN a ELSE b

Digits == <<"0", "1", "2", "3", "4", "5", "6", "7", "8", "9">>

RECURSIVE NatStr(_)
NatStr(n) ==
    IF n < Len(Digits) THEN Digits[n + 1]
    ELSE NatStr(n \div Len(Digits)) \o Digits[(n % Len(Digits)) + 1]

\* str(n) of an int, as an f-string formats it.
ToStr(n) == IF n < 0 THEN "-" \o NatStr(-n) ELSE NatStr(n)

\* f"{self.current_page + 1}/{self.page_count + 1}"
IndicatorLabel(cp, pc) == ToStr(cp + 1) \o "/" \o ToStr(pc + 1)

\* list[i] of Python: negative indices count from the end.
InRange(list, i) == -Len(list) <= i /\ i < Len(list)
PyIndex(list, i) == IF i >= 0 THEN list[i + 1] ELSE list[Len(list) + i + 1]

\* list.index(x): the first position (zero-based) holding x, -1 standing for
\* the ValueError raised when there is none.
ListIndex(list, x) ==
    IF \E i \in 1..Len(list) : list[i] = x
    THEN (CHOOSE i \in 1..Len(list) :
            list[i] = x /\ \A j \in 1..(i - 1) : list[j] # x) - 1
    ELSE -1

SeqRemove(list, x) == SelectSeq(list, LAMBDA y : y # x)

\* ------------------------------------------------------------ page content
\* What a caller may put in a page list.
Str(t) == [kind |-> "str", val |-> t]
Embed(t) == [kind |-> "Embed", val |-> t]
File(t) == [kind |-> "File", val |-> t]
List(items) == [kind |-> "list", val |-> items]
Other(n) == [kind |-> "object", val |-> n]
Page(content, embeds, files, custom_view, callback) ==
    [kind |-> "Page", content |-> content, embeds |-> embeds, files |-> files,
     custom_view |-> custom_view, callback |-> callback]
PageGroup(name, pages, default) ==
    [kind |-> "PageGroup", name |-> name, pages |-> pages, default |-> default]

AllKind(items, k) == \A i \in 1..Len(items) : items[i].kind = k

\* Paginator.get_page_content: [exc, msg, page].
Converted(p) == [exc |-> NoExc, msg |-> "", page |-> p]
TypeError(m) == [exc |-> "TypeError", msg |-> m, page |-> None]

get_page_content(page) ==
    CASE page.kind = "Page" -> Converted(page)
      [] page.kind = "str" -> Converted(Page(Some(page.val), <<>>, <<>>, None, None))
      [] page.kind = "Embed" -> Converted(Page(None, <<page>>, <<>>, None, None))
      [] page.kind = "File" -> Converted(Page(None, <<>>, <<page>>, None, None))
      [] page.kind = "list" ->
            IF AllKind(page.val, "Embed")
            THEN Converted(Page(None, page.val, <<>>, None, None))
            ELSE IF AllKind(page.val, "File")
            THEN Converted(Page(None, <<>>, page.val, None, None))
            ELSE TypeError("All list items must be embeds or files.")
      [] OTHER ->
            TypeError("Page content must be a Page object, string, an embed, a list of embeds, a file, or a list of files.")

\* Paginator.get_page_group_content: the list comprehension stops at the first
\* page that raises.
get_page_group_content(page_group) ==
    LET conv == [i \in 1..Len(page_group.pages) |-> get_page_content(page_group.pages[i])]
        bad == {i \in 1..Len(page_group.pages) : conv[i].exc # NoExc}
    IN
    IF bad = {}
    THEN [exc |-> NoExc, msg |-> "", pages |-> [i \in 1..Len(page_group.pages) |-> conv[i].page]]
    ELSE LET k == CHOOSE i \in bad : \A j \in bad : i <= j
         IN [exc |-> conv[k].exc, msg |-> conv[k].msg, pages |-> <<>>]

\* ------------------------------------------------------------------ buttons
\* PaginatorButtonType (buttons.py): the keys of the button registry.
ButtonTypes == {"first", "prev", "page_indicator", "next", "last"}

\* PaginatorButton(button_type, label, loop_label, disabled, row): a new button
\* is not hidden, and _label keeps the label it was constructed with.
PaginatorButton(button_type, label, loop_label, disabled, row) ==
    [button_type |-> button_type, label |-> label, _label |-> label,
     loop_label |-> loop_label, hidden |-> FALSE, disabled |-> disabled,
     emoji |-> None, row |-> row]

\* Button objects live in a heap, s.btn: the five objects add_default_buttons
\* creates, and the five a caller may pass in custom_buttons.  The registry,
\* the custom_buttons list and the view's children hold references to them.
DefaultObj(t) == <<"default", t>>
CustomObj(t) == <<"custom", t>>
ButtonObjs == {DefaultObj(t) : t \in ButtonTypes} \cup {CustomObj(t) : t \in ButtonTypes}
IsButton(item) == item \in ButtonObjs

\* The registry is a dict, which keeps insertion order: a sequence of entries.
Keys(d) == {d[i].key : i \in 1..Len(d)}
Lookup(d, k) == d[CHOOSE i \in 1..Len(d) : d[i].key = k].obj
DictSet(d, k, v) ==
    IF k \in Keys(d)
    THEN [i \in 1..Len(d) |-> IF d[i].key = k THEN [key |-> k, obj |-> v] ELSE d[i]]
    ELSE Append(d, [key |-> k, obj |-> v])
DictPop(d, k) == SelectSeq(d, LAMBDA e : e.key # k)

\* ------------------------------------------------------------ control flow
Raise(s, e) == [s EXCEPT !.exc = e]
Raised(s) == s.exc # NoExc
Then(s, F(_)) == IF Raised(s) THEN s ELSE F(s)

\* discord.ui.View.add_item / remove_item / clear_items on self.children.
add_item(s, item) == [s EXCEPT !.children = Append(@, item)]
remove_item(s, item) ==
    IF \E i \in 1..Len(s.children) : s.children[i] = item
    THEN LET k == CHOOSE i \in 1..Len(s.children) :
                    s.children[i] = item /\ \A j \in 1..(i - 1) : s.children[j] # item
         IN [s EXCEPT !.children = SubSeq(@, 1, k - 1) \o SubSeq(@, k + 1, Len(@))]
    ELSE s
clear_items(s) == [s EXCEPT !.children = <<>>]

RECURSIVE add_items(_, _)
add_items(s, items) ==
    IF items = <<>> THEN s ELSE add_items(add_item(s, Head(items)), Tail(items))

RECURSIVE remove_items(_, _)
remove_items(s, items) ==
    IF items = <<>> THEN s ELSE remove_items(remove_item(s, Head(items)), Tail(items))

\* Paginator.add_button
add_button(s, obj) ==
    LET button == s.btn[obj]
        is_indicator == button.button_type = "page_indicator"
        added ==
            IF is_indicator
            THEN [button EXCEPT
                    !.hidden = s.show_indicator,
                    !.label = IF button.label = None /\ button.emoji = None
                              THEN Some(IndicatorLabel(s.current_page, s.page_count))
                              ELSE button.label]
            ELSE button
    IN [s EXCEPT !.btn[obj] = added,
                 !.buttons = DictSet(@, button.button_type, obj)]

RECURSIVE add_buttons(_, _)
add_buttons(s, objs) ==
    IF objs = <<>> THEN s ELSE add_buttons(add_button(s, Head(objs)), Tail(objs))

\* Paginator.add_default_buttons: five new button objects, added in this order.
DefaultButtonOrder == <<"first", "prev", "page_indicator", "next", "last">>
\* The loop labels are the arrows U+21AA and U+21A9 in the source.
LoopPrevLabel == "loop-arrow-prev"
LoopNextLabel == "loop-arrow-next"
DefaultButton(t, row) ==
    CASE t = "first" -> PaginatorButton(t, Some("<<"), None, FALSE, row)
      [] t = "prev" -> PaginatorButton(t, Some("<"), Some(LoopPrevLabel), FALSE, row)
      [] t = "page_indicator" -> PaginatorButton(t, None, None, TRUE, row)
      [] t = "next" -> PaginatorButton(t, Some(">"), Some(LoopNextLabel), FALSE, row)
      [] t = "last" -> PaginatorButton(t, Some(">>"), None, FALSE, row)

add_default_buttons(s) ==
    LET fresh == [s EXCEPT !.btn = [o \in ButtonObjs |->
                        IF o[1] = "default"
                        THEN DefaultButton(o[2], s.default_button_row)
                        ELSE s.btn[o]]]
    IN add_buttons(fresh, [i \in 1..Len(DefaultButtonOrder) |-> DefaultObj(DefaultButtonOrder[i])])

\* Paginator.remove_button
RemoveIfPresent(s, button_type) ==
    IF button_type \notin Keys(s.buttons)
    THEN s
    ELSE [s EXCEPT !.buttons = DictPop(@, button_type),
                   !.ret = Some(Lookup(s.buttons, button_type))]
remove_button(s, button_type) ==
    IF button_type \notin Keys(s.buttons)
    THEN Raise(s, "ValueError")
    ELSE [s EXCEPT !.buttons = DictPop(@, button_type),
                   !.ret = Some(Lookup(s.buttons, button_type))]

\* Paginator.add_menu: a new PaginatorMenu bound to page_groups, appended to
\* the children.
MenuItem == <<"menu", "select">>
add_menu(s) ==
    add_item([s EXCEPT !.menu = Some([page_groups |-> s.page_groups,
                                      placeholder |-> s.menu_placeholder]),
                       !.item_disabled[MenuItem] = FALSE],
             MenuItem)

\* Truthiness of an Optional[View] attribute that may also hold MISSING.
IsView(v) == v # None /\ v # MISSING

\* Paginator.update_custom_view
AddViewKeepingOwn(s, custom_view) == add_items(s, custom_view.children)
update_custom_view(s, custom_view) ==
    LET removed == IF IsView(s.custom_view)
                   THEN remove_items(s, s.custom_view[1].children)
                   ELSE s
    IN add_items(removed, custom_view.children)

\* ------------------------------------------------------------- render pass
\* Paginator.update_buttons, statement by statement: a button type missing
\* from the registry raises KeyError where it is first looked up.
SetFirstHiddenLoose(s) ==
    IF "first" \notin Keys(s.buttons) THEN Raise(s, "KeyError")
    ELSE [s EXCEPT !.btn[Lookup(s.buttons, "first")].hidden = (s.current_page <= 0)]
SetFirstHidden(s) ==
    IF "first" \notin Keys(s.buttons) THEN Raise(s, "KeyError")
    ELSE [s EXCEPT !.btn[Lookup(s.buttons, "first")].hidden = (s.current_page <= 1)]

SetLastHiddenAtEnd(s) ==
    IF "last" \notin Keys(s.buttons) THEN Raise(s, "KeyError")
    ELSE [s EXCEPT !.btn[Lookup(s.buttons, "last")].hidden =
                        (s.current_page >= s.page_count)]
SetLastHidden(s) ==
    IF "last" \notin Keys(s.buttons) THEN Raise(s, "KeyError")
    ELSE [s EXCEPT !.btn[Lookup(s.buttons, "last")].hidden =
                        (s.current_page >= s.page_count - 1)]

NextButtonNeverHidden(s) ==
    IF "next" \notin Keys(s.buttons) THEN Raise(s, "KeyError")
    ELSE LET o == Lookup(s.buttons, "next")
             b == s.btn[o]
         IN [s EXCEPT !.btn[o] = [b EXCEPT !.hidden = FALSE, !.label = b._label]]
UpdateNextButton(s) ==
    IF "next" \notin Keys(s.buttons) THEN Raise(s, "KeyError")
    ELSE LET o == Lookup(s.buttons, "next")
             b == s.btn[o]
         IN IF s.current_page = s.page_count
            THEN IF ~s.loop_pages
                 THEN [s EXCEPT !.btn[o] = [b EXCEPT !.hidden = TRUE, !.label = b._label]]
                 ELSE [s EXCEPT !.btn[o] = [b EXCEPT !.label = b.loop_label]]
            ELSE IF s.current_page < s.page_count
                 THEN [s EXCEPT !.btn[o] = [b EXCEPT !.hidden = FALSE, !.label = b._label]]
                 ELSE s

UpdatePrevButton(s) ==
    IF "prev" \notin Keys(s.buttons) THEN Raise(s, "KeyError")
    ELSE LET o == Lookup(s.buttons, "prev")
             b == s.btn[o]
         IN IF s.current_page <= 0
            THEN IF ~s.loop_pages
                 THEN [s EXCEPT !.btn[o] = [b EXCEPT !.hidden = TRUE, !.label = b._label]]
                 ELSE [s EXCEPT !.btn[o] = [b EXCEPT !.label = b.loop_label]]
            ELSE IF s.current_page >= 0
                 THEN [s EXCEPT !.btn[o] = [b EXCEPT !.hidden = FALSE, !.label = b._label]]
                 ELSE s

StaleIndicatorLabel(s) ==
    IF ~s.show_indicator THEN s
    ELSE IF "page_indicator" \notin Keys(s.buttons) THEN Raise(s, "KeyError")
    ELSE s
UpdateIndicatorLabel(s) ==
    IF ~s.show_indicator THEN s
    ELSE IF "page_indicator" \notin Keys(s.buttons) THEN Raise(s, "KeyError")
    ELSE [s EXCEPT !.btn[Lookup(s.buttons, "page_indicator")].label =
                        Some(IndicatorLabel(s.current_page, s.page_count))]

\* The loop over self.buttons.items(): one registry entry.
AddHiddenButtonsToo(s, entry) ==
    IF entry.key # "page_indicator"
    THEN add_item([s EXCEPT !.btn[entry.obj].disabled = s.btn[entry.obj].hidden], entry.obj)
    ELSE IF s.show_indicator THEN add_item(s, entry.obj) ELSE s
RenderButton(s, entry) ==
    IF entry.key # "page_indicator"
    THEN IF s.btn[entry.obj].hidden
         THEN LET d == [s EXCEPT !.btn[entry.obj].disabled = TRUE]
              IN IF s.show_disabled THEN add_item(d, entry.obj) ELSE d
         ELSE add_item([s EXCEPT !.btn[entry.obj].disabled = FALSE], entry.obj)
    ELSE IF s.show_indicator THEN add_item(s, entry.obj) ELSE s

RECURSIVE RenderButtons(_, _)
RenderButtons(s, entries) ==
    IF entries = <<>> THEN s
    ELSE RenderButtons(RenderButton(s, Head(entries)), Tail(entries))

RenderItems(s) ==
    LET buttons_added == RenderButtons(s, s.buttons)
        menu_added == IF s.show_menu THEN add_menu(buttons_added) ELSE buttons_added
    IN IF IsView(menu_added.custom_view)
       THEN update_custom_view(menu_added, menu_added.custom_view[1])
       ELSE menu_added

update_buttons(s) ==
    Then(Then(Then(Then(Then(Then(Then(s,
        SetFirstHidden), SetLastHidden), UpdateNextButton), UpdatePrevButton),
        clear_items), UpdateIndicatorLabel), RenderItems)

\* self.pages[self.current_page] followed by get_page_content, as _prepare
\* and page_action evaluate it: [exc, page].
CurrentPageContent(s) ==
    IF ~InRange(s.pages, s.current_page)
    THEN [exc |-> "IndexError", page |-> None]
    ELSE LET c == get_page_content(PyIndex(s.pages, s.current_page))
         IN [exc |-> c.exc, page |-> c.page]

\* Paginator._prepare: the object after the call.  (update_files only asks
\* the page to reopen its attachments; the page lists of this model carry no
\* used attachment.)
ShowPage(s) ==
    LET c == CurrentPageContent(s)
    IN IF c.exc # NoExc THEN Raise(s, c.exc)
       ELSE IF c.page.custom_view # None
       THEN update_custom_view(s, c.page.custom_view[1])
       ELSE s
_prepare(s) == Then(Then(s, update_buttons), ShowPage)

\* What a rendered item looks like to the host.
ItemState(s, item) ==
    IF IsButton(item)
    THEN [item |-> item, button_type |-> s.btn[item].button_type,
          label |-> s.btn[item].label, disabled |-> s.btn[item].disabled]
    ELSE [item |-> item, button_type |-> "", label |-> None,
          disabled |-> s.item_disabled[item]]
ViewState(s) == [i \in 1..Len(s.children) |-> ItemState(s, s.children[i])]

\* The dict _prepare returns, for an object _prepare has just left without
\* raising.
Payload(s) ==
    LET page == CurrentPageContent(s).page
    IN [content |-> page.content, embeds |-> page.embeds, files |-> page.files,
        view |-> ViewState(s)]

\* The Mapping protocol (__iter__, then __getitem__ for each of the four
\* keys): **self calls _prepare five times.
MappingCalls == <<"__iter__", "content", "embeds", "files", "view">>
RECURSIVE Repeat(_, _)
Repeat(s, calls) == IF calls = <<>> THEN s ELSE Repeat(Then(s, _prepare), Tail(calls))
Unpack(s) == Repeat(s, MappingCalls)

\* ------------------------------------------------------------------ methods
Truthy(opt) == opt = Some(TRUE)

\* The host (discord): a call either goes through or raises, as the caller of
\* the method chooses; Handle is the message a successful send returns.
Handle == "message"
HostOk == "ok"

\* A page's callback (pages.py), as its caller wrote it: its name and the
\* exception it raises when it is awaited, NoExc when it returns.
Callback(name, raises) == [name |-> name, raises |-> raises]

\* Paginator.page_action
PageActionSwallowing(s, interaction) ==
    LET page == CurrentPageContent(s).page
    IN IF page.callback # None
       THEN [s EXCEPT !.invoked = Some([callback |-> page.callback[1],
                                        interaction |-> interaction])]
       ELSE s
page_action(s, interaction) ==
    LET page == CurrentPageContent(s).page
    IN IF page.callback # None
       THEN Raise([s EXCEPT !.invoked = Some([callback |-> page.callback[1],
                                              interaction |-> interaction])],
                  page.callback[1].raises)
       ELSE s

\* The tail of goto_page, from `if interaction:` on: self.message.id (or
\* self.message.edit) is evaluated before **self is unpacked; host is the
\* outcome of the edit.
PushWithoutMessage(s, interaction, host) ==
    LET prepared == Unpack(s)
    IN IF Raised(prepared) THEN prepared
       ELSE IF host # HostOk THEN Raise(prepared, host)
       ELSE [prepared EXCEPT !.pushed = Some(Payload(prepared))]
PushEdit(s, interaction, host) ==
    IF s.message = None THEN Raise(s, "AttributeError")
    ELSE LET prepared == Unpack(s)
         IN IF Raised(prepared) THEN prepared
            ELSE IF host # HostOk THEN Raise(prepared, host)
            ELSE [prepared EXCEPT !.pushed = Some(Payload(prepared))]

\* Paginator.goto_page
goto_page(s, page_number, interaction, host) ==
    LET set == [s EXCEPT !.current_page = page_number]
        prepared == Then(set, _prepare)
        pushed == Then(prepared, LAMBDA x : PushEdit(x, interaction, host))
    IN Then(pushed, LAMBDA x : IF Truthy(x.trigger_on_display)
                               THEN page_action(x, interaction) ELSE x)

\* Paginator.interaction_check
interaction_check(s, user) ==
    IF s.usercheck
    THEN IF s.users = None THEN Raise(s, "TypeError")
         ELSE [s EXCEPT !.ret = Some(user \in s.users[1])]
    ELSE [s EXCEPT !.ret = Some(TRUE)]

\* The scan of the page list that opens __init__ and update: it stops at the
\* first item that is no PageGroup, and raises at a second default group met
\* before that.
Classify(pages) ==
    LET others == {i \in 1..Len(pages) : pages[i].kind # "PageGroup"}
        stop == IF others = {} THEN Len(pages) + 1
                ELSE CHOOSE i \in others : \A j \in others : i <= j
        defaults == {i \in 1..(stop - 1) : pages[i].default}
    IN [exc |-> IF Cardinality(defaults) > 1 THEN "ValueError" ELSE NoExc,
        all_groups |-> others = {},
        default_group |-> IF defaults = {} THEN None
                          ELSE Some(pages[CHOOSE i \in defaults : \A j \in defaults : i <= j])]

\* The `if all_groups:` block shared by __init__ and update; show_menu is the
\* ARGUMENT of the method (in update it is None when not supplied).
SelectGroup(s, default_group, show_menu) ==
    LET groups == IF show_menu THEN s.pages ELSE <<>>
        kept == [s EXCEPT !.page_groups = Some(groups)]
        index == IF default_group = None THEN -1 ELSE ListIndex(groups, default_group[1])
    IN IF index < 0 THEN Raise(kept, "ValueError")
       ELSE LET content == get_page_group_content(groups[index + 1])
                indexed == [kept EXCEPT !.default_page_group = index]
            IN IF content.exc # NoExc THEN Raise(indexed, content.exc)
               ELSE [indexed EXCEPT !.pages = content.pages]

UsePages(s, scanned, show_menu) ==
    LET c == Classify(scanned)
    IN IF c.exc # NoExc THEN Raise(s, c.exc)
       ELSE IF c.all_groups THEN SelectGroup(s, c.default_group, show_menu)
       ELSE s

\* Items that are not paginator buttons: the group menu, the items of the
\* paginator's custom view and those of a page's custom view.
ViewItems == {<<"custom_view", "item">>, <<"page_view", "item">>}
OtherItems == {MenuItem} \cup ViewItems

\* A caller's PaginatorButton objects, as constructed before they are passed.
CustomButton(t) ==
    CASE t = "first" -> PaginatorButton(t, Some("First"), None, FALSE, 0)
      [] t = "prev" -> PaginatorButton(t, Some("Prev"), Some("Wrap to last"), FALSE, 0)
      [] t = "page_indicator" -> PaginatorButton(t, Some("Page"), None, TRUE, 0)
      [] t = "next" -> PaginatorButton(t, Some("Next"), Some("Wrap to first"), FALSE, 0)
      [] t = "last" -> PaginatorButton(t, Some("Last"), None, FALSE, 0)

\* The attributes of an object whose __init__ has not assigned anything yet,
\* with the outputs of a call: exc (the exception raised), ret (the value
\* returned), invoked (the page callback run), pushed (the payload the host
\* accepted from it).
Blank ==
    [pages |-> <<>>, page_groups |-> None, default_page_group |-> 0,
     show_menu |-> FALSE, menu_placeholder |-> "", menu |-> None,
     page_count |-> 0, current_page |-> 0, buttons |-> <<>>,
     custom_buttons |-> None,
     btn |-> [o \in ButtonObjs |->
                IF o[1] = "default" THEN DefaultButton(o[2], 0) ELSE CustomButton(o[2])],
     show_disabled |-> TRUE, show_indicator |-> TRUE, disable_on_timeout |-> TRUE,
     use_default_buttons |-> TRUE, default_button_row |-> 0, loop_pages |-> FALSE,
     custom_view |-> None, trigger_on_display |-> None, message |-> None,
     usercheck |-> FALSE, users |-> None, timeout |-> None,
     children |-> <<>>, item_disabled |-> [i \in OtherItems |-> FALSE],
     is_finished |-> FALSE,
     pushed |-> None, exc |-> NoExc, ret |-> None, invoked |-> None]

\* The start of any call on an existing object.
Call(s) == [s EXCEPT !.exc = NoExc, !.ret = None, !.invoked = None, !.pushed = None]

\* The keyword arguments of __init__, with their defaults.
InitDefaults ==
    [pages |-> <<>>, show_disabled |-> TRUE, show_indicator |-> TRUE,
     show_menu |-> FALSE, menu_placeholder |-> "Select Page Group",
     author_check |-> FALSE, disable_on_timeout |-> TRUE,
     use_default_buttons |-> TRUE, default_button_row |-> 0, loop_pages |-> FALSE,
     custom_view |-> None, timeout |-> Some(180), custom_buttons |-> None,
     trigger_on_display |-> None, users |-> None]

\* Lines 157-161 of __init__.
InitButtons(s) ==
    IF s.custom_buttons # None /\ ~s.use_default_buttons
    THEN add_buttons(s, s.custom_buttons[1])
    ELSE IF (s.custom_buttons = None \/ s.custom_buttons = Some(<<>>)) /\ s.use_default_buttons
    THEN add_default_buttons(s)
    ELSE s

\* Paginator.__init__
__init__(a) ==
    LET head == [Blank EXCEPT
                    !.timeout = a.timeout, !.pages = a.pages, !.current_page = 0,
                    !.menu = None, !.show_menu = a.show_menu,
                    !.menu_placeholder = a.menu_placeholder,
                    !.page_groups = None, !.default_page_group = 0]
        grouped == UsePages(head, head.pages, a.show_menu)
        Attributes(s) ==
            [s EXCEPT !.page_count = Max(Len(s.pages) - 1, 0), !.buttons = <<>>,
                      !.custom_buttons = a.custom_buttons,
                      !.show_disabled = a.show_disabled,
                      !.show_indicator = a.show_indicator,
                      !.disable_on_timeout = a.disable_on_timeout,
                      !.use_default_buttons = a.use_default_buttons,
                      !.default_button_row = a.default_button_row,
                      !.loop_pages = a.loop_pages, !.custom_view = a.custom_view,
                      !.trigger_on_display = a.trigger_on_display,
                      !.message = None]
        Menu(s) == IF s.show_menu THEN add_menu(s) ELSE s
        Users(s) == [s EXCEPT !.usercheck = a.author_check, !.users = a.users]
    IN Then(Then(Then(Then(grouped, Attributes), InitButtons), Menu), Users)

\* The keyword arguments of update, with their defaults: None, or MISSING for
\* the four parameters that take None as a value.
UpdateDefaults ==
    [pages |-> None, show_disabled |-> None, show_indicator |-> None,
     show_menu |-> None, author_check |-> None, menu_placeholder |-> None,
     disable_on_timeout |-> None, use_default_buttons |-> None,
     default_button_row |-> None, loop_pages |-> None, custom_view |-> MISSING,
     timeout |-> MISSING, custom_buttons |-> MISSING, trigger_on_display |-> None,
     interaction |-> None, current_page |-> 0, users |-> MISSING]

Override(old, arg) == IF arg # None THEN arg[1] ELSE old

\* Lines 309-316 of update.
RebuildCustomFirst(s) ==
    IF s.custom_buttons # None
    THEN add_buttons([s EXCEPT !.buttons = <<>>], s.custom_buttons[1])
    ELSE IF s.use_default_buttons
    THEN add_default_buttons([s EXCEPT !.buttons = <<>>])
    ELSE s
RebuildButtons(s) ==
    IF s.use_default_buttons
    THEN add_default_buttons([s EXCEPT !.buttons = <<>>])
    ELSE IF s.custom_buttons # None
    THEN add_buttons([s EXCEPT !.buttons = <<>>], s.custom_buttons[1])
    ELSE s

\* Line 280 of update.
ClampPage(current_page, page_count) ==
    IF current_page <= page_count THEN current_page ELSE 0

\* Paginator.update
update(s, a, host) ==
    LET head == [s EXCEPT
                    !.pages = IF a.pages # None /\ a.pages # Some(<<>>)
                              THEN a.pages[1] ELSE s.pages,
                    !.show_menu = Override(s.show_menu, a.show_menu)]
        grouped == IF a.pages # None
                   THEN UsePages(head, a.pages[1], Truthy(a.show_menu))
                   ELSE head
        Config(x) ==
            [x EXCEPT
                !.page_count = Max(Len(x.pages) - 1, 0),
                !.current_page = ClampPage(a.current_page, Max(Len(x.pages) - 1, 0)),
                !.show_disabled = Override(@, a.show_disabled),
                !.show_indicator = Override(@, a.show_indicator),
                !.usercheck = Override(@, a.author_check),
                !.menu_placeholder = Override(@, a.menu_placeholder),
                !.disable_on_timeout = Override(@, a.disable_on_timeout),
                !.use_default_buttons = Override(@, a.use_default_buttons),
                !.default_button_row = Override(@, a.default_button_row),
                !.loop_pages = Override(@, a.loop_pages),
                !.custom_view = IF a.custom_view # None THEN a.custom_view ELSE @,
                !.timeout = IF a.timeout # MISSING THEN a.timeout ELSE @,
                !.trigger_on_display =
                    IF a.trigger_on_display # None THEN a.trigger_on_display ELSE @,
                !.users = IF a.users # MISSING THEN a.users ELSE @,
                !.custom_buttons =
                    IF a.custom_buttons # MISSING THEN a.custom_buttons ELSE @]
    IN Then(Then(Then(grouped, Config), RebuildButtons),
            LAMBDA x : goto_page(x, x.current_page, a.interaction, host))

\* Paginator.send
send(s, host) ==
    Then(Then(s, _prepare),
         LAMBDA x : IF host # HostOk THEN Raise(x, host)
                    ELSE [x EXCEPT !.message = Some(Handle),
                                   !.pushed = Some(Payload(x)),
                                   !.ret = Some(Handle)])

\* Paginator.edit: target is what is edited ("Message", "Interaction", or a
\* context), returned is what its edit returns (a handle or None).
edit(s, target, returned, host) ==
    Then(Then(s, _prepare),
         LAMBDA x : IF host # HostOk THEN Raise(x, host)
                    ELSE LET message == IF returned = None /\ target \in {"Interaction", "Message"}
                                        THEN Some(Handle) ELSE returned
                         IN [x EXCEPT !.message = message,
                                      !.pushed = Some(Payload(x)),
                                      !.ret = message])

\* Seconds: the limit of an ephemeral paginator's timeout (respond, line 822).
EphemeralLimit == 900

RespondLimitExclusive(s, ephemeral, returned, host) ==
    IF ephemeral /\ (s.timeout = None \/ s.timeout[1] > EphemeralLimit)
    THEN Raise(s, "ValueError")
    ELSE Then(Then(s, _prepare),
              LAMBDA x : IF host # HostOk THEN Raise(x, host)
                         ELSE LET message == IF returned \in {"Message", "Interaction"}
                                             THEN Some(Handle) ELSE x.message
                              IN [x EXCEPT !.message = message,
                                           !.pushed = Some(Payload(x)),
                                           !.ret = message])
\* Paginator.respond: returned is the type of what interaction.respond
\* returns ("Message", "Interaction", or anything else).
respond(s, ephemeral, returned, host) ==
    IF ephemeral /\ (s.timeout = None \/ s.timeout[1] >= EphemeralLimit)
    THEN Raise(s, "ValueError")
    ELSE Then(Then(s, _prepare),
              LAMBDA x : IF host # HostOk THEN Raise(x, host)
                         ELSE LET message == IF returned \in {"Message", "Interaction"}
                                             THEN Some(Handle) ELSE x.message
                              IN [x EXCEPT !.message = message,
                                           !.pushed = Some(Payload(x)),
                                           !.ret = message])

\* get_page_content applied to the optional `page` argument of disable and
\* cancel: None is none of the types it converts.
OptionalPageContent(page) ==
    IF page = None
    THEN TypeError("Page content must be a Page object, string, an embed, a list of embeds, a file, or a list of files.")
    ELSE get_page_content(page[1])

\* The test of the loops of disable and cancel: the item is in their scope.
InScope(s, include_custom, item) ==
    \/ include_custom
    \/ ~IsView(s.custom_view)
    \/ \A i \in 1..Len(s.custom_view[1].children) : s.custom_view[1].children[i] # item

\* item.disabled = True
DisableItem(s, item) ==
    IF IsButton(item)
    THEN [s EXCEPT !.btn[item].disabled = TRUE]
    ELSE [s EXCEPT !.item_disabled[item] = TRUE]

RECURSIVE DisableItems(_, _, _)
DisableItems(s, include_custom, items) ==
    IF items = <<>> THEN s
    ELSE DisableItems(IF InScope(s, include_custom, Head(items))
                      THEN DisableItem(s, Head(items)) ELSE s,
                      include_custom, Tail(items))

RECURSIVE RemoveItems(_, _, _)
RemoveItems(s, include_custom, items) ==
    IF items = <<>> THEN s
    ELSE RemoveItems(IF InScope(s, include_custom, Head(items))
                     THEN remove_item(s, Head(items)) ELSE s,
                     include_custom, Tail(items))

\* bool(page) of a Page object (pages.py): an object without __bool__ and
\* __len__ is truthy.
PageIsTruthy(page) == page # None

\* The edit that ends disable and cancel: `if page:` chooses between an edit
\* with the page's content and embeds and an edit of the view alone.
EditWithPage(s, page, host) ==
    IF s.message = None THEN Raise(s, "AttributeError")
    ELSE IF host # HostOk THEN Raise(s, host)
    ELSE IF PageIsTruthy(page)
    THEN [s EXCEPT !.pushed = Some([content |-> page.content, embeds |-> page.embeds,
                                    view |-> ViewState(s)])]
    ELSE [s EXCEPT !.pushed = Some([view |-> ViewState(s)])]

\* Paginator.disable
disable(s, include_custom, page, host) ==
    LET c == OptionalPageContent(page)
    IN IF c.exc # NoExc THEN Raise(s, c.exc)
       ELSE EditWithPage(DisableItems(s, include_custom, s.children), c.page, host)

\* Paginator.cancel
CancelResettingPage(s, include_custom, page, host) ==
    LET c == OptionalPageContent(page)
        first == [s EXCEPT !.current_page = 0]
    IN IF c.exc # NoExc THEN Raise(first, c.exc)
       ELSE EditWithPage(RemoveItems(first, include_custom, first.children), c.page, host)
cancel(s, include_custom, page, host) ==
    LET c == OptionalPageContent(page)
    IN IF c.exc # NoExc THEN Raise(s, c.exc)
       ELSE EditWithPage(RemoveItems(s, include_custom, s.children), c.page, host)

\* The host errors on_timeout catches.
Swallowed == {"NotFound", "Forbidden"}

\* discord.ui.View.stop
stop(s) == [s EXCEPT !.is_finished = TRUE]

\* The body of `if self.disable_on_timeout:` in on_timeout.
TimeoutDisable(s, host) ==
    LET disabled == DisableItems(s, TRUE, s.children)
        c == CurrentPageContent(disabled)
    IN IF c.exc # NoExc THEN Raise(disabled, c.exc)
       ELSE IF disabled.message = None THEN Raise(disabled, "AttributeError")
       ELSE IF host \in Swallowed THEN disabled
       ELSE IF host # HostOk THEN Raise(disabled, host)
       ELSE [disabled EXCEPT !.pushed = Some([view |-> ViewState(disabled),
                                              files |-> c.page.files])]

\* Paginator.on_timeout
on_timeout(s, host) ==
    Then(IF s.disable_on_timeout THEN TimeoutDisable(s, host) ELSE s, stop)

\* -------------------------------------------------------------- the state
\* The attributes of the one Paginator object, the outputs of the last call
\* on it (exc, ret, invoked, pushed), that call (call), and the coroutines
\* that are suspended on a host operation (tasks).
VARIABLES
    pages, page_groups, default_page_group, show_menu, menu_placeholder,
    menu, page_count, current_page, buttons, custom_buttons, btn,
    show_disabled, show_indicator, disable_on_timeout, use_default_buttons,
    default_button_row, loop_pages, custom_view, trigger_on_display, message,
    usercheck, users, timeout, children, item_disabled, is_finished, pushed,
    exc, ret, invoked, call, tasks

vars ==
    <<pages, page_groups, default_page_group, show_menu, menu_placeholder,
      menu, page_count, current_page, buttons, custom_buttons, btn,
      show_disabled, show_indicator, disable_on_timeout, use_default_buttons,
      default_button_row, loop_pages, custom_view, trigger_on_display,
      message, usercheck, users, timeout, children, item_disabled,
      is_finished, pushed, exc, ret, invoked, call, tasks>>

\* The object as the methods take it.
Self ==
    [pages |-> pages, page_groups |-> page_groups,
     default_page_group |-> default_page_group, show_menu |-> show_menu,
     menu_placeholder |-> menu_placeholder, menu |-> menu,
     page_count |-> page_count, current_page |-> current_page,
     buttons |-> buttons, custom_buttons |-> custom_buttons, btn |-> btn,
     show_disabled |-> show_disabled, show_indicator |-> show_indicator,
     disable_on_timeout |-> disable_on_timeout,
     use_default_buttons |-> use_default_buttons,
     default_button_row |-> default_button_row, loop_pages |-> loop_pages,
     custom_view |-> custom_view, trigger_on_display |-> trigger_on_display,
     message |-> message, usercheck |-> usercheck, users |-> users,
     timeout |-> timeout, children |-> children,
     item_disabled |-> item_disabled, is_finished |-> is_finished,
     pushed |-> pushed, exc |-> exc, ret |-> ret, invoked |-> invoked]

\* A default button object that neither the registry nor the children refer
\* to is garbage: nothing can read it again, and add_default_buttons makes
\* new objects.  Its slot in the heap is reset, so that two states differing
\* only in garbage are one state.
Referenced(s, o) ==
    \/ \E i \in 1..Len(s.buttons) : s.buttons[i].obj = o
    \/ \E i \in 1..Len(s.children) : s.children[i] = o
Collect(s) ==
    [s EXCEPT !.btn = [o \in ButtonObjs |->
        IF o[1] = "default" /\ ~Referenced(s, o) THEN DefaultButton(o[2], 0) ELSE s.btn[o]]]

\* The object s becomes the state, c the call that was made.
CommitFields(s, c) ==
    /\ pages' = s.pages
    /\ page_groups' = s.page_groups
    /\ default_page_group' = s.default_page_group
    /\ show_menu' = s.show_menu
    /\ menu_placeholder' = s.menu_placeholder
    /\ menu' = s.menu
    /\ page_count' = s.page_count
    /\ current_page' = s.current_page
    /\ buttons' = s.buttons
    /\ custom_buttons' = s.custom_buttons
    /\ btn' = s.btn
    /\ show_disabled' = s.show_disabled
    /\ show_indicator' = s.show_indicator
    /\ disable_on_timeout' = s.disable_on_timeout
    /\ use_default_buttons' = s.use_default_buttons
    /\ default_button_row' = s.default_button_row
    /\ loop_pages' = s.loop_pages
    /\ custom_view' = s.custom_view
    /\ trigger_on_display' = s.trigger_on_display
    /\ message' = s.message
    /\ usercheck' = s.usercheck
    /\ users' = s.users
    /\ timeout' = s.timeout
    /\ children' = s.children
    /\ item_disabled' = s.item_disabled
    /\ is_finished' = s.is_finished
    /\ pushed' = s.pushed
    /\ exc' = s.exc
    /\ ret' = s.ret
    /\ invoked' = s.invoked
    /\ call' = c
\* A call that runs to its end without another coroutine in between.
Commit(s, c) == CommitFields(Collect(s), c) /\ UNCHANGED tasks

\* The state after the constructor call Paginator(**a).
Constructed(a) ==
    LET s == __init__(a)
    IN /\ pages = s.pages
       /\ page_groups = s.page_groups
       /\ default_page_group = s.default_page_group
       /\ show_menu = s.show_menu
       /\ menu_placeholder = s.menu_placeholder
       /\ menu = s.menu
       /\ page_count = s.page_count
       /\ current_page = s.current_page
       /\ buttons = s.buttons
       /\ custom_buttons = s.custom_buttons
       /\ btn = s.btn
       /\ show_disabled = s.show_disabled
       /\ show_indicator = s.show_indicator
       /\ disable_on_timeout = s.disable_on_timeout
       /\ use_default_buttons = s.use_default_buttons
       /\ default_button_row = s.default_button_row
       /\ loop_pages = s.loop_pages
       /\ custom_view = s.custom_view
       /\ trigger_on_display = s.trigger_on_display
       /\ message = s.message
       /\ usercheck = s.usercheck
       /\ users = s.users
       /\ timeout = s.timeout
       /\ children = s.children
       /\ item_disabled = s.item_disabled
       /\ is_finished = s.is_finished
       /\ pushed = s.pushed
       /\ exc = s.exc
       /\ ret = s.ret
       /\ invoked = s.invoked
       /\ call = [op |-> "__init__", pages |-> a.pages, show_menu |-> a.show_menu]
       /\ tasks = <<>>

\* A constructor that raised leaves no object to call.
Alive == ~(call.op = "__init__" /\ exc # NoExc)

\* ------------------------------------------------------------------ inputs
\* A flat list of n string pages.
Strs(n) == [i \in 1..n |-> Str("page " \o ToStr(i))]

\* The page numbers a caller passes to goto_page when the longest list has
\* max pages: every index of it, one past it, and a negative one.
PageNumbers(max) == (-1)..max
\* The page numbers a caller passes to update.
UpdatePageNumbers(max) == {-1, 0, 1, max}

Interactions == {None, Some("interaction")}
HostOutcomes == {HostOk, "HTTPException"}

\* The custom_buttons lists a caller passes: all five types, or the four
\* navigation buttons without an indicator.
AllFive == [i \in 1..Len(DefaultButtonOrder) |-> CustomObj(DefaultButtonOrder[i])]
NavFour == SelectSeq(AllFive, LAMBDA o : o[2] # "page_indicator")
DefaultSetup == [use_default_buttons |-> TRUE, custom_buttons |-> None]
CustomSetup(list) == [use_default_buttons |-> FALSE, custom_buttons |-> Some(list)]

WithPage(overrides, numbers) ==
    {[a EXCEPT !.current_page = n] : a \in overrides, n \in numbers}

\* ----------------------------------------------------------------- actions
\* Each action is one call on the object, with its arguments drawn from the
\* sets the specification passes.
GotoPageBy(numbers, interactions, hosts) ==
    /\ Alive
    /\ \E n \in numbers, i \in interactions, h \in hosts :
          Commit(goto_page(Call(Self), n, i, h), [op |-> "goto_page"])

SendBy(hosts) ==
    /\ Alive
    /\ \E h \in hosts : Commit(send(Call(Self), h), [op |-> "send"])

\* What is edited, and what its edit returns.
EditTargets ==
    {[target |-> "Message", returned |-> None],
     [target |-> "Interaction", returned |-> Some(Handle)],
     [target |-> "BridgeExtContext", returned |-> None]}
EditBy(targets, hosts) ==
    /\ Alive
    /\ \E e \in targets, h \in hosts :
          Commit(edit(Call(Self), e.target, e.returned, h), [op |-> "edit"])

RespondBy(returns, hosts) ==
    /\ Alive
    /\ \E ephemeral \in BOOLEAN, r \in returns, h \in hosts :
          Commit(respond(Call(Self), ephemeral, r, h), [op |-> "respond"])

\* A read of the mapping view: channel.send(**paginator).
MappingRead ==
    /\ Alive
    /\ LET s == Unpack(Call(Self))
       IN Commit(IF Raised(s) THEN s ELSE [s EXCEPT !.ret = Some(Payload(s))],
                 [op |-> "mapping"])

Update(arguments) ==
    /\ Alive
    /\ \E a \in arguments :
          Commit(update(Call(Self), a, HostOk), [op |-> "update"])

\* update, with the page list and the show_menu argument kept in call.
UpdatePages(arguments) ==
    /\ Alive
    /\ \E a \in arguments :
          Commit(update(Call(Self), a, HostOk),
                 [op |-> "update", pages |-> a.pages, show_menu |-> a.show_menu])

InteractionCheck(principals) ==
    /\ Alive
    /\ \E user \in principals :
          Commit(interaction_check(Call(Self), user),
                 [op |-> "interaction_check", user |-> user])

\* ---------------------------------------------- navigation specification
\* Flat page lists, default or custom buttons, with and without loop_pages;
\* update changes the target page, loop_pages or the page list.
NavInits ==
    {[InitDefaults EXCEPT !.pages = Strs(n), !.loop_pages = lp,
                          !.use_default_buttons = b.use_default_buttons,
                          !.custom_buttons = b.custom_buttons] :
        n \in 1..MaxPages, lp \in BOOLEAN, b \in {DefaultSetup, CustomSetup(AllFive)}}
\* A union of argument sets, enumerated once: the model checker otherwise
\* keeps a union unevaluated and expands it again in every step.
Enumerated(S) == {x \in S : TRUE}
NavUpdates ==
    WithPage({UpdateDefaults}
             \cup {[UpdateDefaults EXCEPT !.loop_pages = Some(v)] : v \in BOOLEAN}
             \cup {[UpdateDefaults EXCEPT !.pages = Some(Strs(n))] : n \in {0, 1, MaxPages}},
             UpdatePageNumbers(MaxPages))
UpdateNav == Update(NavUpdates)

GotoPage == GotoPageBy(PageNumbers(MaxPages), Interactions, HostOutcomes)
Send == SendBy(HostOutcomes)

Init == \E a \in NavInits : Constructed(a)
Next == GotoPage \/ Send \/ MappingRead \/ UpdateNav
Spec == Init /\ [][Next]_vars

\* -------------------------------------------------- render specification
\* Flat page lists rendered by every render operation, with every choice of
\* show_disabled and show_indicator, default buttons or custom ones (with and
\* without an indicator button), on a host that accepts every call.
RenderInits ==
    {[InitDefaults EXCEPT !.pages = Strs(n), !.show_disabled = sd,
                          !.show_indicator = si,
                          !.use_default_buttons = b.use_default_buttons,
                          !.custom_buttons = b.custom_buttons] :
        n \in 1..MaxRenderPages, sd \in BOOLEAN, si \in BOOLEAN,
        b \in {DefaultSetup, CustomSetup(AllFive), CustomSetup(NavFour)}}
RenderUpdates ==
    WithPage({UpdateDefaults}
             \cup {[UpdateDefaults EXCEPT !.show_indicator = Some(v)] : v \in BOOLEAN}
             \cup {[UpdateDefaults EXCEPT !.show_disabled = Some(v)] : v \in BOOLEAN}
             \cup {[UpdateDefaults EXCEPT !.pages = Some(Strs(n))] : n \in {1, MaxRenderPages}},
             {0, 1})
UpdateRender == Update(RenderUpdates)

GotoPageRender == GotoPageBy(PageNumbers(MaxRenderPages), {None}, {HostOk})
SendRender == SendBy({HostOk})
EditRender == EditBy({[target |-> "Message", returned |-> None]}, {HostOk})
RespondRender == RespondBy({"Message"}, {HostOk})

InitRender == \E a \in RenderInits : Constructed(a)
NextRender ==
    GotoPageRender \/ SendRender \/ EditRender \/ RespondRender \/ MappingRead
    \/ UpdateRender
SpecRender == InitRender /\ [][NextRender]_vars

\* ------------------------------------------------- message specification
\* The message handle: short flat page lists with the default configuration,
\* every way of sending, on a host that may refuse any call.
MaxMessagePages == 2
MessageInits == {[InitDefaults EXCEPT !.pages = Strs(n)] : n \in 1..MaxMessagePages}
GotoPageMessage == GotoPageBy(PageNumbers(MaxMessagePages), Interactions, HostOutcomes)
EditMessage == EditBy(EditTargets, HostOutcomes)
RespondMessage == RespondBy({"Message", "Interaction", "None"}, HostOutcomes)
UpdateMessage == Update(WithPage({UpdateDefaults}, UpdatePageNumbers(MaxMessagePages)))

InitMessage == \E a \in MessageInits : Constructed(a)
NextMessage == GotoPageMessage \/ Send \/ EditMessage \/ RespondMessage \/ UpdateMessage
SpecMessage == InitMessage /\ [][NextMessage]_vars


\* --------------------------------------------------- group specification
\* Page lists made of PageGroups: every list of at most MaxGroups groups with
\* every choice of default flags, constructed and passed to update with and
\* without show_menu.  Group k holds k string pages of its own.
MaxGroups == 2
GroupPages(k) == [i \in 1..k |-> Str("group " \o ToStr(k) \o " page " \o ToStr(i))]
Group(k, default) == PageGroup("group " \o ToStr(k), GroupPages(k), default)
GroupLists ==
    UNION {{[k \in 1..n |-> Group(k, flags[k])] : flags \in [1..n -> BOOLEAN]} :
              n \in 0..MaxGroups}
GroupInits ==
    {[InitDefaults EXCEPT !.pages = g, !.show_menu = m] :
        g \in GroupLists, m \in BOOLEAN}
GroupUpdates ==
    Enumerated({[UpdateDefaults EXCEPT !.pages = Some(g), !.show_menu = m] :
                   g \in GroupLists, m \in {None, Some(TRUE)}}
               \cup {UpdateDefaults})
UpdateGroups == UpdatePages(GroupUpdates)
GotoPageGroups == GotoPageBy(PageNumbers(MaxGroups), {None}, {HostOk})
SendGroups == SendBy({HostOk})

InitGroups == \E a \in GroupInits : Constructed(a)
NextGroups == GotoPageGroups \/ SendGroups \/ UpdateGroups
SpecGroups == InitGroups /\ [][NextGroups]_vars

\* -------------------------------------------------- author specification
\* The author check: every choice of author_check and of the users set, at
\* construction and by update, checked against every principal.
Principals == {"alice", "bob"}
UserSets == {None, Some({}), Some({"alice"})}
AuthInits ==
    {[InitDefaults EXCEPT !.pages = Strs(MaxMessagePages), !.author_check = c,
                          !.users = u] :
        c \in BOOLEAN, u \in UserSets}
AuthUpdates ==
    Enumerated({[UpdateDefaults EXCEPT !.author_check = Some(c)] : c \in BOOLEAN}
               \cup {[UpdateDefaults EXCEPT !.users = u] : u \in UserSets})
UpdateAuth == Update(AuthUpdates)
CheckAuth == InteractionCheck(Principals)
GotoPageAuth == GotoPageBy(PageNumbers(MaxMessagePages), Interactions, {HostOk})
SendAuth == SendBy({HostOk})

InitAuth == \E a \in AuthInits : Constructed(a)
NextAuth == CheckAuth \/ GotoPageAuth \/ SendAuth \/ UpdateAuth
SpecAuth == InitAuth /\ [][NextAuth]_vars


\* -------------------------------------------------- update specification
\* update with its arguments kept in call: every parameter omitted, single
\* parameters supplied, and page lists that fail validation, on paginators
\* built with and without a custom view and with every button setup.
MaxUpdatePages == 2
UpdateWith(arguments) ==
    /\ Alive
    /\ \E a \in arguments :
          Commit(update(Call(Self), a, HostOk), [op |-> "update", args |-> a])

\* A custom view with one item.
CustomView == [children |-> <<<<"custom_view", "item">>>>]
ButtonSetups ==
    {DefaultSetup, CustomSetup(AllFive), CustomSetup(NavFour),
     [use_default_buttons |-> TRUE, custom_buttons |-> Some(<<>>)],
     [use_default_buttons |-> TRUE, custom_buttons |-> Some(AllFive)]}
UpdateInits ==
    {[InitDefaults EXCEPT !.pages = Strs(MaxUpdatePages), !.custom_view = v,
                          !.use_default_buttons = b.use_default_buttons,
                          !.custom_buttons = b.custom_buttons] :
        v \in {None, Some(CustomView)}, b \in ButtonSetups}
\* Page lists update rejects: two default groups, an unsupported object on the
\* page shown, a list mixing embeds and files on the page shown.
RejectedPages ==
    {<<Group(1, TRUE), Group(2, TRUE)>>,
     <<Other(1), Str("page 2")>>,
     <<List(<<Embed("e"), File("f")>>)>>}
UpdateArguments ==
    Enumerated(
        {UpdateDefaults}
        \cup {[UpdateDefaults EXCEPT !.pages = Some(l), !.show_menu = Some(TRUE)] :
                l \in RejectedPages}
        \cup {[UpdateDefaults EXCEPT !.pages = Some(Strs(1))]}
        \cup {[UpdateDefaults EXCEPT !.use_default_buttons = Some(v)] : v \in BOOLEAN}
        \cup {[UpdateDefaults EXCEPT !.custom_buttons = c] : c \in {None, Some(AllFive)}}
        \cup {[UpdateDefaults EXCEPT !.show_indicator = Some(FALSE)],
              [UpdateDefaults EXCEPT !.custom_view = None]})
UpdateConfig == UpdateWith(UpdateArguments)
GotoPageConfig == GotoPageBy(0..(MaxUpdatePages - 1), {None}, {HostOk})
SendConfig == SendBy({HostOk})

InitUpdate == \E a \in UpdateInits : Constructed(a)
NextUpdate == UpdateConfig \/ GotoPageConfig \/ SendConfig
SpecUpdate == InitUpdate /\ [][NextUpdate]_vars

\* ------------------------------------------------ registry specification
\* Buttons removed from the registry one type at a time, and respond called
\* with and without ephemeral, on paginators built with each timeout around
\* the ephemeral limit.
RemoveButton(types) ==
    /\ Alive
    /\ \E t \in types :
          Commit(remove_button(Call(Self), t), [op |-> "remove_button", button_type |-> t])

\* respond, with its ephemeral argument and the host's outcome kept in call.
RespondWith(returns, hosts) ==
    /\ Alive
    /\ \E ephemeral \in BOOLEAN, r \in returns, h \in hosts :
          Commit(respond(Call(Self), ephemeral, r, h),
                 [op |-> "respond", ephemeral |-> ephemeral, host |-> h])

Timeouts == {None, Some(600), Some(899), Some(900), Some(901)}
RegistryInits ==
    {[InitDefaults EXCEPT !.pages = Strs(MaxMessagePages), !.timeout = x] : x \in Timeouts}
RemoveAny == RemoveButton(ButtonTypes)
RespondRegistry == RespondWith({"Message"}, HostOutcomes)
GotoPageRegistry == GotoPageBy(0..(MaxMessagePages - 1), {None}, {HostOk})

InitRegistry == \E a \in RegistryInits : Constructed(a)
NextRegistry == RemoveAny \/ RespondRegistry \/ GotoPageRegistry
SpecRegistry == InitRegistry /\ [][NextRegistry]_vars

\* ----------------------------------------------- lifecycle specification
\* disable, cancel and the timeout, with and without a custom view, with
\* every include_custom and with and without an override page, followed by
\* navigation.
OverridePages == {None, Some(Str("closed")), Some(Embed("closed"))}
TimeoutOutcomes == Enumerated({HostOk, "HTTPException"} \cup Swallowed)

Disable(pages_, hosts) ==
    /\ Alive
    /\ \E include_custom \in BOOLEAN, page \in pages_, h \in hosts :
          Commit(disable(Call(Self), include_custom, page, h),
                 [op |-> "disable", include_custom |-> include_custom,
                  page |-> page, host |-> h])

Cancel(pages_, hosts) ==
    /\ Alive
    /\ \E include_custom \in BOOLEAN, page \in pages_, h \in hosts :
          Commit(cancel(Call(Self), include_custom, page, h),
                 [op |-> "cancel", include_custom |-> include_custom,
                  page |-> page, host |-> h])

OnTimeout(hosts) ==
    /\ Alive
    /\ \E h \in hosts :
          Commit(on_timeout(Call(Self), h), [op |-> "on_timeout", host |-> h])

LifecycleInits ==
    {[InitDefaults EXCEPT !.pages = Strs(MaxMessagePages), !.custom_view = v,
                          !.disable_on_timeout = d] :
        v \in {None, Some(CustomView)}, d \in BOOLEAN}
DisableAny == Disable(OverridePages, HostOutcomes)
CancelAny == Cancel(OverridePages, HostOutcomes)
TimeoutFires == OnTimeout(TimeoutOutcomes)
GotoPageLifecycle == GotoPageBy(0..(MaxMessagePages - 1), {None}, {HostOk})
SendLifecycle == SendBy({HostOk})

InitLifecycle == \E a \in LifecycleInits : Constructed(a)
NextLifecycle ==
    DisableAny \/ CancelAny \/ TimeoutFires \/ GotoPageLifecycle \/ SendLifecycle
SpecLifecycle == InitLifecycle /\ [][NextLifecycle]_vars

\* ------------------------------------------------- timeout specification
\* The timeout of a paginator that was shown: by send, or by a caller that
\* unpacks the mapping view into its own send (which leaves message unset);
\* navigation takes every page number, the edit of the timeout every outcome.
GotoPageTimeout == GotoPageBy(PageNumbers(MaxMessagePages), {None}, {HostOk})

InitTimeout == \E a \in LifecycleInits : Constructed(a)
NextTimeout == SendLifecycle \/ MappingRead \/ GotoPageTimeout \/ TimeoutFires
SpecTimeout == InitTimeout /\ [][NextTimeout]_vars

\* ---------------------------------------------- coroutine specification
\* goto_page and on_timeout are coroutines: each runs without interruption up
\* to an await of a host operation, where it is suspended and any other
\* coroutine of the event loop may run.  A payload is handed to the host when
\* the edit is called, before that await.  A segment is the code between two
\* awaits; pushed is here the last payload handed to the host.
MaxTasks == 2
MaxTaskPages == 3

\* The start of a segment: the outputs of the segment before it are reset,
\* the last payload handed to the host is kept.
Resume(s) == [s EXCEPT !.exc = NoExc, !.ret = None, !.invoked = None]

\* goto_page, lines 444-448: up to `await interaction.response.defer()` with
\* an interaction, up to the await of the edit (lines 455-458) without one.
GotoPageStart(s, page_number, interaction) ==
    LET prepared == Then([s EXCEPT !.current_page = page_number], _prepare)
    IN IF interaction # None THEN prepared
       ELSE Then(prepared, LAMBDA x : PushEdit(x, interaction, HostOk))

\* goto_page, lines 449-453: from the return of defer() to the await of
\* followup.edit_message; host is the outcome of defer().
GotoPageDeferred(s, interaction, host) ==
    IF host # HostOk THEN Raise(s, host) ELSE PushEdit(s, interaction, HostOk)

\* goto_page, lines 459-460: from the return of the edit to the end; host is
\* the outcome of the edit.
GotoPageEdited(s, interaction, host) ==
    IF host # HostOk THEN Raise(s, host)
    ELSE IF Truthy(s.trigger_on_display) THEN page_action(s, interaction)
    ELSE s

\* on_timeout, lines 322-333: up to the await of message.edit; without
\* disable_on_timeout the whole of it.
OnTimeoutStart(s) ==
    IF s.disable_on_timeout THEN TimeoutDisable(s, HostOk) ELSE stop(s)

\* on_timeout, lines 334-336: from the return of the edit to the end.
OnTimeoutEdited(s, host) ==
    IF host \in Swallowed \/ host = HostOk THEN stop(s) ELSE Raise(s, host)

\* A suspended coroutine: the method, where it waits, and its arguments.
Task(op, pc, page_number, interaction) ==
    [op |-> op, pc |-> pc, page_number |-> page_number, interaction |-> interaction]
Without(list, k) == SubSeq(list, 1, k - 1) \o SubSeq(list, k + 1, Len(list))
Segment(op, step, page_number, interaction) ==
    [op |-> op, step |-> step, page_number |-> page_number,
     interaction |-> interaction]

\* A goto_page call is made (by a button's callback or by the program) on a
\* paginator that is not stopped: a stopped view gets no interaction.
StartGotoPage(numbers, interactions) ==
    /\ Alive /\ ~is_finished /\ Len(tasks) < MaxTasks
    /\ \E n \in numbers, i \in interactions :
          LET s == GotoPageStart(Resume(Self), n, i)
          IN /\ CommitFields(Collect(s), Segment("goto_page", "start", n, i))
             /\ tasks' = IF Raised(s) THEN tasks
                         ELSE Append(tasks, Task("goto_page",
                                                 IF i # None THEN "deferred" ELSE "editing",
                                                 n, i))

\* defer() returns to a suspended goto_page.
ResumeDeferred(hosts) ==
    \E k \in 1..Len(tasks), h \in hosts :
        /\ tasks[k].op = "goto_page" /\ tasks[k].pc = "deferred"
        /\ LET s == GotoPageDeferred(Resume(Self), tasks[k].interaction, h)
           IN /\ CommitFields(Collect(s),
                              Segment("goto_page", "deferred", tasks[k].page_number,
                                      tasks[k].interaction))
              /\ tasks' = IF Raised(s) THEN Without(tasks, k)
                          ELSE [tasks EXCEPT ![k].pc = "editing"]

\* The edit returns to a suspended goto_page.
ResumeEdited(hosts) ==
    \E k \in 1..Len(tasks), h \in hosts :
        /\ tasks[k].op = "goto_page" /\ tasks[k].pc = "editing"
        /\ CommitFields(Collect(GotoPageEdited(Resume(Self), tasks[k].interaction, h)),
                        Segment("goto_page", "edited", tasks[k].page_number,
                                tasks[k].interaction))
        /\ tasks' = Without(tasks, k)

\* The view's timeout fires, once, on a paginator that was shown.
TimeoutStarts ==
    /\ Alive /\ ~is_finished /\ message # None
    /\ \A k \in 1..Len(tasks) : tasks[k].op # "on_timeout"
    /\ LET s == OnTimeoutStart(Resume(Self))
       IN /\ CommitFields(Collect(s), Segment("on_timeout", "start", 0, None))
          /\ tasks' = IF Raised(s) \/ s.is_finished THEN tasks
                      ELSE Append(tasks, Task("on_timeout", "editing", 0, None))

\* The edit returns to the suspended on_timeout.
TimeoutResumes(hosts) ==
    \E k \in 1..Len(tasks), h \in hosts :
        /\ tasks[k].op = "on_timeout" /\ tasks[k].pc = "editing"
        /\ CommitFields(Collect(OnTimeoutEdited(Resume(Self), h)),
                        Segment("on_timeout", "edited", 0, None))
        /\ tasks' = Without(tasks, k)

\* Three string pages with the default buttons, with and without
\* disable_on_timeout; the paginator is sent once, before anything else.
TaskInits ==
    {[InitDefaults EXCEPT !.pages = Strs(MaxTaskPages), !.disable_on_timeout = d] :
        d \in BOOLEAN}
SendTasks == message = None /\ SendBy({HostOk})
GotoPageTasks == StartGotoPage(0..(MaxTaskPages - 1), Interactions)
DeferReturns == ResumeDeferred(HostOutcomes)
EditReturns == ResumeEdited(HostOutcomes)
TimeoutEditReturns == TimeoutResumes(TimeoutOutcomes)

InitTasks == \E a \in TaskInits : Constructed(a)
NextTasks ==
    SendTasks \/ GotoPageTasks \/ DeferReturns \/ EditReturns \/ TimeoutStarts
    \/ TimeoutEditReturns
SpecTasks == InitTasks /\ [][NextTasks]_vars

\* --------------------------------------------- idempotence specification
\* update with its arguments kept in call, on flat page lists with default or
\* custom buttons: update changes the page, loop_pages or the page list, and
\* goto_page takes every page number of the longest list.
MaxIdemPages == 3
IdemInits ==
    {[InitDefaults EXCEPT !.pages = Strs(n), !.loop_pages = lp,
                          !.use_default_buttons = b.use_default_buttons,
                          !.custom_buttons = b.custom_buttons] :
        n \in 1..MaxIdemPages, lp \in BOOLEAN, b \in {DefaultSetup, CustomSetup(AllFive)}}
IdemUpdates ==
    WithPage({UpdateDefaults}
             \cup {[UpdateDefaults EXCEPT !.loop_pages = Some(v)] : v \in BOOLEAN}
             \cup {[UpdateDefaults EXCEPT !.pages = Some(Strs(n))] : n \in {1, MaxIdemPages}},
             0..(MaxIdemPages - 1))
UpdateIdem == UpdateWith(IdemUpdates)
GotoPageIdem == GotoPageBy(0..(MaxIdemPages - 1), {None}, {HostOk})

InitIdem == \E a \in IdemInits : Constructed(a)
NextIdem == UpdateIdem \/ GotoPageIdem \/ SendConfig
SpecIdem == InitIdem /\ [][NextIdem]_vars

\* ------------------------------------------------ callback specification
\* Pages with and without a callback, one of them raising, shown with every
\* value of trigger_on_display, with and without an interaction, on a host
\* that may refuse the edit; goto_page keeps its arguments in call.
CallbackPages ==
    <<Str("page 1"),
      Page(Some("page 2"), <<>>, <<>>, None, Some(Callback("greet", NoExc))),
      Page(Some("page 3"), <<>>, <<>>, None, Some(Callback("fail", "RuntimeError")))>>
CallbackInits ==
    {[InitDefaults EXCEPT !.pages = CallbackPages, !.trigger_on_display = t] :
        t \in {None, Some(FALSE), Some(TRUE)}}

GotoPageWith(numbers, interactions, hosts) ==
    /\ Alive
    /\ \E n \in numbers, i \in interactions, h \in hosts :
          Commit(goto_page(Call(Self), n, i, h),
                 [op |-> "goto_page", page_number |-> n, interaction |-> i, host |-> h])
GotoPageCallback == GotoPageWith(0..Len(CallbackPages), Interactions, HostOutcomes)

InitCallback == \E a \in CallbackInits : Constructed(a)
NextCallback == Send \/ GotoPageCallback
SpecCallback == InitCallback /\ [][NextCallback]_vars

\* ---------------------------------------------------- view specification
\* A page that carries a custom view of its own between two that carry none,
\* as a flat list and as the one group of a paginator with the group menu,
\* on paginators with and without a custom view of their own.
PageView == [children |-> <<<<"page_view", "item">>>>]
ViewPages ==
    <<Str("page 1"),
      Page(Some("page 2"), <<>>, <<>>, Some(PageView), None),
      Str("page 3")>>
ViewLists ==
    {[pages |-> ViewPages, show_menu |-> FALSE],
     [pages |-> <<PageGroup("group", ViewPages, TRUE)>>, show_menu |-> TRUE]}
ViewInits ==
    {[InitDefaults EXCEPT !.pages = l.pages, !.show_menu = l.show_menu,
                          !.custom_view = v] :
        l \in ViewLists, v \in {None, Some(CustomView)}}
GotoPageViews == GotoPageBy(0..Len(ViewPages), Interactions, HostOutcomes)

InitViews == \E a \in ViewInits : Constructed(a)
NextViews == Send \/ GotoPageViews \/ MappingRead
SpecViews == InitViews /\ [][NextViews]_vars

\* --------------------------------------------------- frame specification
\* Every operation of the paginator in one specification: two pages, flat or
\* as the one group of a paginator with the group menu, with and without a
\* custom view; update changes the page or the page list.
FrameInits ==
    {[InitDefaults EXCEPT !.pages = l, !.show_menu = l # Strs(MaxMessagePages),
                          !.custom_view = v] :
        l \in {Strs(MaxMessagePages),
               <<PageGroup("group", Strs(MaxMessagePages), TRUE)>>},
        v \in {None, Some(CustomView)}}
FrameUpdates ==
    WithPage({UpdateDefaults, [UpdateDefaults EXCEPT !.pages = Some(Strs(1))]}, {0, 1})
GotoPageFrame == GotoPageBy(0..MaxMessagePages, {None}, {HostOk})
DisableFrame == Disable({None, Some(Str("closed"))}, {HostOk})
CancelFrame == Cancel({None, Some(Str("closed"))}, {HostOk})
TimeoutFrame == OnTimeout({HostOk, "NotFound"})
EditFrame == EditBy({[target |-> "Message", returned |-> None]}, {HostOk})
RespondFrame == RespondBy({"Message"}, {HostOk})
UpdateFrame == Update(FrameUpdates)
RemoveFrame == RemoveButton({"page_indicator"})
CheckFrame == InteractionCheck({"alice"})

InitFrame == \E a \in FrameInits : Constructed(a)
NextFrame ==
    GotoPageFrame \/ DisableFrame \/ CancelFrame \/ TimeoutFrame \/ SendLifecycle
    \/ EditFrame \/ RespondFrame \/ MappingRead \/ UpdateFrame \/ RemoveFrame
    \/ CheckFrame
SpecFrame == InitFrame /\ [][NextFrame]_vars

\* ------------------------------------------------------------- properties
\* The registered button of a type, and whether a type is registered.
HasButton(t) == t \in Keys(buttons)
Button(t) == btn[Lookup(buttons, t)]
InChildren(item) == \E i \in 1..Len(children) : children[i] = item

\* The last call was a render (a call that runs _prepare) and it returned.
RenderOps == {"send", "edit", "respond", "goto_page", "update", "mapping"}
Rendered == call.op \in RenderOps /\ exc = NoExc

\* C1: after construction, after every update call and after every goto_page
\* call, whatever page number was passed, page_count = max(len(pages) - 1, 0)
\* and 0 <= current_page <= page_count.  (Stated for the calls that return;
\* a call that raises leaves the page number it was given as well.)
C1_PageInRange ==
    (call.op \in {"__init__", "update", "goto_page"} /\ exc = NoExc) =>
        /\ page_count = Max(Len(pages) - 1, 0)
        /\ 0 <= current_page
        /\ current_page <= page_count

\* The page list of the last constructor or update call, when it is a
\* non-empty list of PageGroups only.
GroupCall ==
    /\ call.op \in {"__init__", "update"}
    /\ IF call.op = "update" THEN call.pages # None ELSE TRUE
CalledPages == IF call.op = "update" THEN call.pages[1] ELSE call.pages
CalledWithGroups ==
    /\ GroupCall
    /\ CalledPages # <<>>
    /\ AllKind(CalledPages, "PageGroup")
CalledDefaults == {i \in 1..Len(CalledPages) : CalledPages[i].default}
\* The group such a call is to make active: the one flagged default, or the
\* first one.
CalledActive ==
    IF CalledDefaults = {} THEN 1 ELSE CHOOSE i \in CalledDefaults : TRUE

\* C2: constructing or updating with PageGroups fails with a configuration
\* error (ValueError) when two or more groups are flagged default; with
\* exactly one default it succeeds and that group is active; with none it
\* succeeds and the group at index 0 is active.
C2_DefaultGroup ==
    CalledWithGroups =>
        IF Cardinality(CalledDefaults) > 1
        THEN exc = "ValueError"
        ELSE /\ exc # "ValueError"
             /\ pages = get_page_group_content(CalledPages[CalledActive]).pages

\* C3: a constructor call with PageGroups only and show_menu false succeeds,
\* the pages become the content of the default (or first) group, and the
\* group list is not kept as page_groups.
C3_GroupsWithoutMenu ==
    (/\ call.op = "__init__"
     /\ CalledWithGroups
     /\ ~call.show_menu
     /\ Cardinality(CalledDefaults) <= 1) =>
        /\ exc = NoExc
        /\ pages = get_page_group_content(CalledPages[CalledActive]).pages
        /\ page_groups \in {None, Some(<<>>)}

\* C4: with loop_pages disabled, after a render at a page p in
\* 0..page_count, prev is hidden iff p = 0 and next is hidden iff
\* p = page_count; strictly between the two ends prev and next are neither
\* hidden nor disabled and carry their normal labels.
C4_NoLoopEnds ==
    (Rendered /\ ~loop_pages /\ 0 <= current_page /\ current_page <= page_count) =>
        /\ Button("prev").hidden <=> (current_page = 0)
        /\ Button("next").hidden <=> (current_page = page_count)
        /\ (0 < current_page /\ current_page < page_count) =>
              /\ ~Button("prev").hidden /\ ~Button("prev").disabled
              /\ ~Button("next").hidden /\ ~Button("next").disabled
              /\ Button("prev").label = Button("prev")._label
              /\ Button("next").label = Button("next")._label
\* A render in the middle of a list, both buttons live.
C4_Witness ==
    /\ Rendered /\ ~loop_pages
    /\ current_page = 1 /\ page_count = 2
    /\ ~Button("prev").hidden /\ ~Button("next").hidden
    /\ Button("next").label = Some(">")

\* C5: with loop_pages enabled, after any render, next is visible and shows
\* its loop_label when current_page = page_count, and prev is visible and
\* shows its loop_label when current_page <= 0.
C5_LoopEnds ==
    (Rendered /\ loop_pages) =>
        /\ (current_page = page_count) =>
              /\ ~Button("next").hidden
              /\ Button("next").label = Button("next").loop_label
        /\ (current_page <= 0) =>
              /\ ~Button("prev").hidden
              /\ Button("prev").label = Button("prev").loop_label

\* C6: after any render, first is hidden iff current_page <= 1 and last is
\* hidden iff current_page >= page_count - 1, with or without loop_pages.
C6_FirstLast ==
    Rendered =>
        /\ Button("first").hidden <=> (current_page <= 1)
        /\ Button("last").hidden <=> (current_page >= page_count - 1)
\* A render with loop_pages on, on page 3, where first is shown and last is
\* hidden.
C6_Witness ==
    /\ Rendered /\ loop_pages
    /\ current_page = 2
    /\ ~Button("first").hidden /\ Button("last").hidden

\* The indicator item of the view the host was last handed, if it has one.
PushedIndicators ==
    IF pushed = None THEN {}
    ELSE {pushed[1].view[i] : i \in {j \in 1..Len(pushed[1].view) :
                                        pushed[1].view[j].button_type = "page_indicator"}}

\* C7: whenever show_indicator is true, after every render the page_indicator
\* button's label is "{current_page+1}/{page_count+1}" for the current_page
\* and page_count of that render, in the registry and in the view handed to
\* the host.
C7_IndicatorLabel ==
    (Rendered /\ show_indicator) =>
        /\ Button("page_indicator").label = Some(IndicatorLabel(current_page, page_count))
        /\ \A item \in PushedIndicators :
              item.label = Some(IndicatorLabel(current_page, page_count))
        /\ (current_page = 1 /\ page_count = 2) =>
              Button("page_indicator").label = Some("2/3")
        /\ (current_page = -1 /\ page_count = 0) =>
              Button("page_indicator").label = Some("0/1")
\* The second of three pages, pushed to the host after a shorter list was
\* shown, on a custom indicator button that was constructed with a label.
C7_Witness ==
    /\ Rendered /\ show_indicator /\ call.op = "update"
    /\ current_page = 1 /\ page_count = 2
    /\ Lookup(buttons, "page_indicator") = CustomObj("page_indicator")
    /\ \E item \in PushedIndicators : item.label = Some("2/3")

\* C8: after any render a hidden non-indicator button is absent from the item
\* list when show_disabled is false and present and disabled when it is
\* true; a button that is not hidden is present and enabled; the indicator is
\* present iff show_indicator is true, and a registered indicator stays
\* registered when show_indicator is false.
C8_Inclusion ==
    Rendered =>
        /\ \A i \in 1..Len(buttons) :
              LET o == buttons[i].obj
              IN IF buttons[i].key # "page_indicator"
                 THEN IF btn[o].hidden
                      THEN IF show_disabled
                           THEN InChildren(o) /\ btn[o].disabled
                           ELSE ~InChildren(o)
                      ELSE InChildren(o) /\ ~btn[o].disabled
                 ELSE InChildren(o) <=> show_indicator
        /\ (\E i \in 1..Len(children) :
                IsButton(children[i]) /\ btn[children[i]].button_type = "page_indicator")
           <=> show_indicator
        /\ (use_default_buttons \/ custom_buttons = Some(AllFive)) =>
              HasButton("page_indicator")
\* A render without disabled buttons and without the indicator: the hidden
\* prev button is left out, the indicator is registered and left out.
C8_Witness ==
    /\ Rendered /\ ~show_disabled /\ ~show_indicator
    /\ current_page = 0 /\ page_count = 2
    /\ Button("prev").hidden /\ ~InChildren(Lookup(buttons, "prev"))
    /\ InChildren(Lookup(buttons, "next"))
    /\ HasButton("page_indicator")
    /\ ~InChildren(Lookup(buttons, "page_indicator"))

\* C9: interaction_check returns true for every principal when author_check
\* is disabled; when it is enabled it returns whether the principal is in the
\* users set, false when no users set was supplied.
C9_InteractionCheck ==
    call.op = "interaction_check" =>
        /\ exc = NoExc
        /\ ret = Some(IF usercheck
                      THEN users # None /\ call.user \in users[1]
                      ELSE TRUE)

\* C10: the message handle is None until the first send, edit or respond that
\* succeeds, and every goto_page call made while it is None raises.
C10_NoMessage ==
    /\ message = None
    /\ [][(message = None /\ message' # None) =>
            (call'.op \in {"send", "edit", "respond"} /\ exc' = NoExc)]_vars
    /\ [](call.op = "goto_page" /\ message = None => exc # NoExc)
\* goto_page(1) raised for want of a message: the page number was stored and
\* the edit of the missing message failed.
C10_Witness ==
    /\ call.op = "goto_page" /\ message = None
    /\ exc = "AttributeError" /\ current_page = 1

\* The arguments of the update call that led to the state.
UpdateCalled == call.op = "update" /\ "args" \in DOMAIN call
\* The state of the paginator a failed update has to leave alone.
Configuration ==
    <<pages, page_groups, default_page_group, show_menu, page_count,
      current_page, show_disabled, show_indicator, usercheck, menu_placeholder,
      disable_on_timeout, use_default_buttons, default_button_row, loop_pages,
      custom_view, timeout, trigger_on_display, users, custom_buttons, buttons>>
\* The page list passed has more than one default group; the page list passed
\* has content get_page_content rejects.
PassedTwoDefaults ==
    call.args.pages # None /\ Classify(call.args.pages[1]).exc = "ValueError"
PassedBadContent ==
    /\ call.args.pages # None
    /\ \E i \in 1..Len(call.args.pages[1]) :
          /\ call.args.pages[1][i].kind # "PageGroup"
          /\ get_page_content(call.args.pages[1][i]).exc # NoExc

\* C11: an update that fails with a validation error (more than one default
\* PageGroup, or unsupported or mixed page content) leaves pages, page_groups,
\* default_page_group, show_menu, page_count, current_page, every
\* configuration flag and the button registry as they were before the call.
C11_FailedUpdate ==
    [][(/\ UpdateCalled'
        /\ \/ (exc' = "ValueError" /\ PassedTwoDefaults')
           \/ (exc' = "TypeError" /\ PassedBadContent'))
       => UNCHANGED Configuration]_vars

\* C12: an update call that omits a configuration parameter leaves the stored
\* value of that parameter as it was.  (For custom_view, None and MISSING
\* both count as "no view": what has to stay is the view, if there is one.
\* Stated for the update calls that return.)
C12_OmittedKept ==
    [][(UpdateCalled' /\ exc' = NoExc) =>
        LET a == call'.args
        IN /\ a.show_disabled = None => show_disabled' = show_disabled
           /\ a.show_indicator = None => show_indicator' = show_indicator
           /\ a.show_menu = None => show_menu' = show_menu
           /\ a.author_check = None => usercheck' = usercheck
           /\ a.menu_placeholder = None => menu_placeholder' = menu_placeholder
           /\ a.disable_on_timeout = None => disable_on_timeout' = disable_on_timeout
           /\ a.use_default_buttons = None => use_default_buttons' = use_default_buttons
           /\ a.default_button_row = None => default_button_row' = default_button_row
           /\ a.loop_pages = None => loop_pages' = loop_pages
           /\ a.timeout = MISSING => timeout' = timeout
           /\ a.custom_buttons = MISSING => custom_buttons' = custom_buttons
           /\ a.trigger_on_display = None => trigger_on_display' = trigger_on_display
           /\ a.users = MISSING => users' = users
           /\ a.custom_view = MISSING =>
                 /\ IsView(custom_view') = IsView(custom_view)
                 /\ IsView(custom_view) => custom_view' = custom_view]_vars

\* The registry that holds exactly the buttons of a list, in its order.
RegistryOf(list) == [i \in 1..Len(list) |-> [key |-> list[i][2], obj |-> list[i]]]
DefaultRegistry ==
    RegistryOf([i \in 1..Len(DefaultButtonOrder) |-> DefaultObj(DefaultButtonOrder[i])])

\* C13: an update that gets as far as the buttons rebuilds the registry by
\* this rule: with default buttons in use the registry becomes exactly the
\* five default buttons; otherwise, with a custom button list, exactly the
\* buttons of that list; with neither, its keys and its button objects are
\* left as they were.
C13_RegistryRebuilt ==
    [][(UpdateCalled' /\ exc' # "ValueError") =>
        IF use_default_buttons'
        THEN buttons' = DefaultRegistry
        ELSE IF custom_buttons' # None
        THEN buttons' = RegistryOf(custom_buttons'[1])
        ELSE buttons' = buttons]_vars
\* update(custom_buttons=None) on a paginator with five custom buttons: no
\* default buttons, no custom list, and the five custom buttons still
\* registered.
C13_Witness ==
    /\ UpdateCalled /\ exc = NoExc
    /\ call.args.custom_buttons = None
    /\ ~use_default_buttons /\ custom_buttons = None
    /\ buttons = RegistryOf(AllFive)

\* C14: after a constructor call with use_default_buttons = true the registry
\* holds exactly the five default buttons, whatever custom_buttons was (None,
\* an empty list, a non-empty list).
C14_DefaultsIgnoreCustom ==
    (call.op = "__init__" /\ exc = NoExc /\ use_default_buttons) =>
        buttons = DefaultRegistry

\* C15: remove_button on a type that is not registered fails with an error
\* (ValueError) and leaves the registry as it was; on a registered type it
\* returns the registered button, the type is no longer registered and every
\* other entry is unchanged.
C15_RemoveButton ==
    [][call'.op = "remove_button" =>
        LET t == call'.button_type
        IN IF t \notin Keys(buttons)
           THEN exc' = "ValueError" /\ ret' = None /\ buttons' = buttons
           ELSE /\ exc' = NoExc
                /\ ret' = Some(Lookup(buttons, t))
                /\ Keys(buttons') = Keys(buttons) \ {t}
                /\ Len(buttons') = Len(buttons) - 1
                /\ \A k \in Keys(buttons') : Lookup(buttons', k) = Lookup(buttons, k)]_vars
\* A second removal of the next button: it fails, and the four other buttons
\* are still registered.
C15_Witness ==
    /\ call.op = "remove_button" /\ call.button_type = "next"
    /\ exc = "ValueError"
    /\ Keys(buttons) = ButtonTypes \ {"next"}

ItemDisabled(item) == IF IsButton(item) THEN btn[item].disabled ELSE item_disabled[item]
InCustomView(item) ==
    /\ IsView(custom_view)
    /\ \E i \in 1..Len(custom_view[1].children) : custom_view[1].children[i] = item
PushedItems == [i \in 1..Len(pushed[1].view) |-> pushed[1].view[i].item]
\* A disable or cancel call on a paginator that has a message, on a host that
\* accepts the edit.
StopCalled(op) == call.op = op /\ message # None /\ call.host = HostOk

\* C17: disable(include_custom, page) sets disabled on every item of the item
\* list, except that with include_custom = false the custom view's items keep
\* their flag; it then pushes one edit, with the override page's content and
\* embeds when a page is supplied and with the items alone when none is.
C17_Disable ==
    [][StopCalled("disable")' =>
        /\ exc' = NoExc
        /\ children' = children
        /\ \A i \in 1..Len(children) :
              IF call'.include_custom \/ ~InCustomView(children[i])
              THEN ItemDisabled(children[i])'
              ELSE ItemDisabled(children[i])' = ItemDisabled(children[i])
        /\ pushed' # None
        /\ PushedItems' = children
        /\ \A i \in 1..Len(children) :
              pushed'[1].view[i].disabled = ItemDisabled(children[i])'
        /\ IF call'.page = None
           THEN DOMAIN pushed'[1] = {"view"}
           ELSE /\ pushed'[1].content = get_page_content(call'.page[1]).page.content
                /\ pushed'[1].embeds = get_page_content(call'.page[1]).page.embeds]_vars

\* C18: cancel(include_custom, page) removes every item disable would have
\* disabled: with include_custom = true the item list becomes empty, with
\* include_custom = false exactly the custom view's items remain; the pushed
\* render holds the remaining items only.
C18_Cancel ==
    [][StopCalled("cancel")' =>
        /\ exc' = NoExc
        /\ children' = IF call'.include_custom THEN <<>>
                       ELSE SelectSeq(children, InCustomView)
        /\ pushed' # None
        /\ PushedItems' = children']_vars

\* C19: once disable or cancel has completed, a goto_page call changes
\* neither current_page nor the item list, pushes no render and re-enables
\* no item.
C19_StoppedStays ==
    [][(/\ call.op \in {"disable", "cancel"} /\ exc = NoExc
        /\ call'.op = "goto_page") =>
        /\ current_page' = current_page
        /\ pushed' = None
        /\ children' = children
        /\ \A i \in 1..Len(children) :
              ItemDisabled(children[i]) => ItemDisabled(children[i])']_vars

\* C20: after the timeout has fired with disable_on_timeout = true, a
\* goto_page call is a no-op: current_page, the buttons' flags and the item
\* list stay as the timeout left them, nothing is pushed, and the paginator
\* stays stopped.
C20_TimedOutStays ==
    [][(is_finished /\ disable_on_timeout /\ call'.op = "goto_page") =>
        /\ UNCHANGED <<current_page, btn, children, item_disabled>>
        /\ pushed' = None
        /\ is_finished']_vars

\* The view has been handed to the host, so that its timeout is running: a
\* message exists, or the mapping view was just unpacked into a send.
Shown == message # None \/ (call.op = "mapping" /\ exc = NoExc)

\* C21: every firing of the timeout on a shown paginator whose host edit
\* succeeds, reports not found or reports forbidden raises nothing and leaves
\* the paginator stopped.  With disable_on_timeout = true every item of the
\* item list is disabled, custom-view items included, and no page content is
\* pushed; with disable_on_timeout = false nothing is pushed and no item's
\* flag changes.
C21_TimeoutStops ==
    [][(/\ call'.op = "on_timeout"
        /\ call'.host \in {HostOk} \cup Swallowed
        /\ Shown) =>
        /\ exc' = NoExc
        /\ is_finished'
        /\ UNCHANGED <<pages, current_page, children>>
        /\ IF disable_on_timeout
           THEN /\ \A i \in 1..Len(children) : ItemDisabled(children[i])'
                /\ pushed' # None => "content" \notin DOMAIN pushed'[1]
           ELSE /\ pushed' = None
                /\ UNCHANGED <<btn, item_disabled>>]_vars

\* The segment just run handed a payload of a goto_page call to the host.
Handed ==
    /\ call.op = "goto_page" /\ "step" \in DOMAIN call /\ exc = NoExc
    /\ \/ call.step = "start" /\ call.interaction = None
       \/ call.step = "deferred"
\* The paginator rendered at a page number, and what the host is handed then.
RenderedAt(page_number) ==
    Unpack(Then([Resume(Self) EXCEPT !.current_page = page_number], _prepare))

\* C22: in every interleaving of overlapping goto_page calls, the payload a
\* call hands to the host is the render of the page number that call was
\* given: its content, its items with their disabled flags and labels, and
\* the indicator label.
C22_OwnPayload ==
    [][Handed' =>
        LET n == call'.page_number
        IN /\ pushed' = Some(Payload(RenderedAt(n)))
           /\ pushed'[1].content = get_page_content(PyIndex(pages, n)).page.content
           /\ \A i \in 1..Len(pushed'[1].view) :
                 pushed'[1].view[i].button_type = "page_indicator" =>
                    pushed'[1].view[i].label = Some(IndicatorLabel(n, page_count))]_vars

\* The navigation buttons of the item list and of the last payload handed to
\* the host are all disabled.
NavigationDisabled ==
    /\ \A i \in 1..Len(children) :
          IsButton(children[i]) => btn[children[i]].disabled
    /\ pushed # None =>
          \A i \in 1..Len(pushed[1].view) :
              IsButton(pushed[1].view[i].item) => pushed[1].view[i].disabled

\* C23: in every interleaving of on_timeout (with disable_on_timeout = true)
\* and goto_page calls made before the paginator stopped, once the timeout
\* has stopped the paginator and no coroutine is suspended any more, neither
\* the item list nor the last payload handed to the host shows an enabled
\* navigation button.
C23_TimeoutExclusive ==
    (is_finished /\ disable_on_timeout /\ tasks = <<>>) => NavigationDisabled

\* The hidden, disabled and label values of the five registered buttons.
ButtonTable(s) ==
    [t \in ButtonTypes |->
        LET b == s.btn[Lookup(s.buttons, t)]
        IN [hidden |-> b.hidden, disabled |-> b.disabled, label |-> b.label]]
\* A paginator constructed now with the pages and the configuration of this
\* one (custom buttons as their caller constructs them), rendered at a page.
SameConfiguration ==
    [InitDefaults EXCEPT
        !.pages = pages, !.show_disabled = show_disabled,
        !.show_indicator = show_indicator, !.show_menu = show_menu,
        !.menu_placeholder = menu_placeholder, !.author_check = usercheck,
        !.disable_on_timeout = disable_on_timeout,
        !.use_default_buttons = use_default_buttons,
        !.default_button_row = default_button_row, !.loop_pages = loop_pages,
        !.custom_view = custom_view, !.timeout = timeout,
        !.custom_buttons = custom_buttons,
        !.trigger_on_display = trigger_on_display, !.users = users]
FreshAt(page_number) ==
    Then([__init__(SameConfiguration) EXCEPT !.current_page = page_number], _prepare)
\* The last call was update with current_page alone, and it returned.
OnlyPageUpdated ==
    /\ UpdateCalled /\ exc = NoExc
    /\ call.args = [UpdateDefaults EXCEPT !.current_page = call.args.current_page]

\* C24: after an update call that passes nothing but current_page = p, in any
\* state reached by earlier goto_page and update calls, the hidden, disabled
\* and label values of first, prev, next, last and the indicator are those of
\* a paginator freshly constructed with the same pages and configuration and
\* rendered at the page the update shows.
C24_UpdateIdempotent ==
    OnlyPageUpdated => ButtonTable(Self) = ButtonTable(FreshAt(current_page))

\* A goto_page call whose arguments were kept, and the callback of the page
\* it was asked to show (None when the page has none or does not exist).
GotoPageCalled == call.op = "goto_page" /\ "host" \in DOMAIN call
CalledCallback ==
    IF InRange(pages, call.page_number)
    THEN get_page_content(PyIndex(pages, call.page_number)).page.callback
    ELSE None

\* C25: a goto_page call runs the page callback iff the host accepted the
\* push of that navigation, trigger_on_display is enabled and the page shown
\* has a callback; it runs it once, after the push, with the interaction of
\* the call (or none); when the push fails no callback runs, and an error the
\* callback raises is the error goto_page raises.
C25_PageCallback ==
    GotoPageCalled =>
        /\ invoked # None <=>
              (pushed # None /\ Truthy(trigger_on_display) /\ CalledCallback # None)
        /\ invoked # None =>
              /\ invoked[1] = [callback |-> CalledCallback[1],
                               interaction |-> call.interaction]
              /\ exc = CalledCallback[1].raises
        /\ (call.host # HostOk \/ pushed = None) => invoked = None
        /\ (pushed # None /\ invoked = None) => exc = NoExc
\* goto_page(2, interaction) with trigger_on_display on: the page was pushed,
\* its callback ran with the interaction and raised, and goto_page raised it.
C25_Witness ==
    /\ GotoPageCalled /\ call.page_number = 2 /\ call.interaction # None
    /\ pushed # None /\ pushed[1].content = Some("page 3")
    /\ invoked = Some([callback |-> Callback("fail", "RuntimeError"),
                       interaction |-> call.interaction])
    /\ exc = "RuntimeError"

\* The items of a view in the item list, and the custom view of the page
\* shown.
Holds(view) == \A i \in 1..Len(view.children) : InChildren(view.children[i])
HoldsNone(view) == \A i \in 1..Len(view.children) : ~InChildren(view.children[i])
ShownView == CurrentPageContent(Self).page.custom_view
\* Buttons first, then the group menu, then the items of custom views.
Rank(item) == IF IsButton(item) THEN 1 ELSE IF item = MenuItem THEN 2 ELSE 3
InFixedOrder ==
    \A i, j \in 1..Len(children) : i < j => Rank(children[i]) <= Rank(children[j])

\* C26: after a render of a page that has a custom view, the item list holds
\* the page's custom items and none of the paginator's own custom_view items;
\* after a render of a page without one, it holds the paginator's own
\* custom_view items and no page's custom items.  In both cases the custom
\* items come after the buttons and the group menu, and the view handed to
\* the host is that item list.
C26_PageView ==
    Rendered =>
        /\ IF ShownView # None
           THEN /\ Holds(ShownView[1])
                /\ IsView(custom_view) => HoldsNone(custom_view[1])
           ELSE /\ IsView(custom_view) => Holds(custom_view[1])
                /\ HoldsNone(PageView)
        /\ show_menu => InChildren(MenuItem)
        /\ InFixedOrder
        /\ pushed # None => PushedItems = children
\* Page 2 pushed by goto_page on a paginator with the group menu and a
\* custom view of its own: the page's item is last, behind the group menu,
\* and the paginator's own item is not in the list.
C26_Witness ==
    /\ call.op = "goto_page" /\ exc = NoExc /\ pushed # None /\ current_page = 1
    /\ show_menu /\ IsView(custom_view)
    /\ children[Len(children)] = <<"page_view", "item">>
    /\ children[Len(children) - 1] = MenuItem
    /\ ~InChildren(<<"custom_view", "item">>)

\* The ways goto_page fails: the page number is past the end of the page
\* list, there is no message handle yet, the host refuses the edit.
GotoPageFailures == {"IndexError", "AttributeError", "HTTPException"}

\* C27: a goto_page call that fails (page number past the end, no message
\* handle yet, or a host transport error) leaves current_page and the hidden,
\* disabled and label values of every button as they were before the call.
C27_FailedGotoPage ==
    [][(call'.op = "goto_page" /\ exc' \in GotoPageFailures) =>
        /\ current_page' = current_page
        /\ ButtonTable(Self)' = ButtonTable(Self)]_vars

\* The operations that configure nothing, and those of them that do not
\* navigate either.
NonNavigating ==
    {"disable", "cancel", "on_timeout", "send", "edit", "respond", "mapping"}
NonConfiguring == NonNavigating \cup {"goto_page"}

\* C28: goto_page, disable, cancel, on_timeout, send, edit, respond and a
\* read of the mapping view change neither pages, page_count, page_groups nor
\* the set of button types in the registry, and all of them but goto_page
\* leave current_page as it was; a step that changes pages or page_count is
\* an update, and a step that changes current_page is a goto_page or an
\* update.
C28_Frame ==
    [][/\ call'.op \in NonConfiguring =>
             /\ UNCHANGED <<pages, page_count, page_groups>>
             /\ Keys(buttons') = Keys(buttons)
       /\ call'.op \in NonNavigating => current_page' = current_page
       /\ (pages' # pages \/ page_count' # page_count) => call'.op = "update"
       /\ current_page' # current_page => call'.op \in {"goto_page", "update"}]_vars
\* cancel(include_custom = true, page = "closed") on the second of two
\* pages: the item list is empty and was pushed, and the page, the page list
\* and the five registered button types are as before.
C28_Witness ==
    /\ call.op = "cancel" /\ exc = NoExc /\ pushed # None /\ children = <<>>
    /\ current_page = 1 /\ page_count = 1 /\ Len(pages) = 2
    /\ Keys(buttons) = ButtonTypes

\* The four navigation buttons.
NavigationTypes == ButtonTypes \ {"page_indicator"}

\* C29: with loop_pages disabled and current_page in 0..page_count, after
\* every render each navigation button is disabled exactly when it is hidden,
\* prev hidden implies first hidden, next hidden implies last hidden, on a
\* single page all four are hidden, and with two pages first and last are
\* hidden on both.
C29_Consistent ==
    (Rendered /\ ~loop_pages /\ 0 <= current_page /\ current_page <= page_count) =>
        /\ \A t \in NavigationTypes : Button(t).disabled = Button(t).hidden
        /\ Button("prev").hidden => Button("first").hidden
        /\ Button("next").hidden => Button("last").hidden
        /\ page_count = 0 => \A t \in NavigationTypes : Button(t).hidden
        /\ page_count = 1 => Button("first").hidden /\ Button("last").hidden
\* The first of two pages after a render: first, prev and last hidden and
\* disabled, next shown and enabled.
C29_Witness ==
    /\ Rendered /\ ~loop_pages /\ page_count = 1 /\ current_page = 0
    /\ Button("first").hidden /\ Button("prev").hidden /\ Button("last").hidden
    /\ Button("last").disabled
    /\ ~Button("next").hidden /\ ~Button("next").disabled

====
